---- MODULE Spec2Model ----
(***************************************************************************)
(* MediBuddy real-time engine (src/realtime_engine.py): the KnowledgeGraph *)
(* fact store, its change history and its subscriber fan-out, driven by    *)
(* producer coroutines that call upsert_fact on one asyncio event loop;    *)
(* the ChangeValidator; and the websocket bookkeeping of PharmaBrain and   *)
(* of ConnectionManager (src/main.py).                                     *)
(*                                                                         *)
(* asyncio is cooperative: a coroutine runs without interruption from one  *)
(* suspending await to the next.  upsert_fact holds no await between its   *)
(* lookup (line 86) and the call of the first subscriber callback (line    *)
(* 130), so that stretch is one action; the only suspension points are the *)
(* awaits inside the subscriber callbacks (ws.send_json, line 474).        *)
(*                                                                         *)
(* Python strings are modelled as sequences of tokens, ":" and "_" being   *)
(* tokens, so that the f-string keys, startswith and the substring tests   *)
(* are computed, not assumed.                                              *)
(* Optional values are modelled as sets with at most one element ({} is    *)
(* None).  AtomicFact objects live in a heap indexed by allocation order;  *)
(* facts and change_history hold references into it, as in Python.         *)
(***************************************************************************)
EXTENDS Integers, Sequences, FiniteSets, TLC

\* ------------------------------------------------------------------ bounds
MaxCalls == 3        \* upsert_fact calls made in one behaviour of SpecStore,
                     \* SpecHistory, SpecProducer, SpecRecent
MaxBusCalls == 2     \* upsert_fact calls made in one behaviour of Spec, SpecErrors, SpecWs
MaxInFlight == 2     \* producer coroutines that may be inside upsert_fact at once
MaxSubs == 2         \* callbacks registered with subscribe
MaxTime == 2         \* ticks of datetime.now()
MaxCopay == 25       \* largest copay, in dollars, handed to the validator
MaxStarts == 2       \* start() calls on the firehose, or on one agent
MaxAgents == 2       \* autonomous agents of the brain
MaxChecks == 2       \* checks one agent makes
MaxCallers == 3      \* coroutines that call get_pharma_brain
MaxDrugs == 3        \* drugs listed in one interaction check request

\* ------------------------------------------------------------------ inputs
\* Two of the update tuples of PharmaFirehose._simulation_loop (lines 208 and
\* 218): the coordinate, the importance the producer attaches to it, and the
\* values observed for it.  The formulary tier moves between 3 and 2 ("Tier 3
\* -> Tier 2"); the NADAC price is 485.50, in cents.
Updates ==
    { [entity_type |-> <<"coverage">>,
       entity_id   |-> <<"ozempic", ":", "aetna_comm">>,
       field       |-> <<"formulary", "_", "tier">>,
       importance  |-> 8,
       values      |-> {2, 3}],
      [entity_type |-> <<"price">>,
       entity_id   |-> <<"eliquis">>,
       field       |-> <<"nadac">>,
       importance  |-> 4,
       values      |-> {48550}] }

VARIABLES
    heap,            \* AtomicFact objects, in order of construction
    facts,           \* KnowledgeGraph.facts: dict, as <<key, ref>> pairs in insertion order
    change_history,  \* KnowledgeGraph.change_history: list of refs
    subscribers,     \* KnowledgeGraph.subscribers: list of callbacks
    hung,            \* callbacks whose awaited send never completes
    joined,          \* per callback: how many upsert_fact calls had started when it subscribed
    pc,              \* per upsert_fact call: "notify" (suspended in a callback) or "returned"
    idx,             \* per call: position in subscribers of the callback it is suspended in
    result,          \* per call: the value upsert_fact returns
    inbox,           \* per callback: the facts it was invoked with, in order, and
                     \* what get_fact returned for the fact's key at that moment
    recent,          \* the list the last get_recent_changes call returned
    now,             \* datetime.now()
    asked,           \* the last get_recent_changes call: its arguments, its
                     \* datetime.now() and the history length it saw (Optional)
    active_connections, \* ConnectionManager.active_connections: list of websockets
    websocket_clients,  \* PharmaBrain.websocket_clients: list of websockets
    dead,            \* websockets whose peer has gone away
    failed,          \* callback invocations that ended in an exception:
                     \* <<callback, fact ref, where it was caught>>
    cand,            \* the AtomicFact handed to the ChangeValidator
    scored,          \* what score_importance returned for it (Optional)
    verdict,         \* what validate returned for it (Optional)
    running,         \* PharmaFirehose.running
    loops,           \* the _simulation_loop tasks created so far: where each
                     \* stands, and the upsert_fact call it awaits
    agent_running,   \* per agent: AutonomousAgent.running
    agent_loops,     \* per agent: where each of its _run_loop tasks stands
    checks,          \* per agent: stats["checks"]
    pharma_brain,    \* the module global pharma_brain (Optional instance number)
    constructed,     \* PharmaBrain instances constructed so far
    started,         \* per instance: how often its start() has run
    brain_running,   \* per instance: PharmaBrain.running
    got,             \* per caller of get_pharma_brain: what it returned, and
                     \* whether that instance was running then (Optional)
    request,         \* InteractionCheckRequest.drugs of the request being served
    response         \* what /api/interactions/check answered (Optional)

\* The variables of the websocket layer and of the validator.
wsvars == <<active_connections, websocket_clients, dead, failed>>
valvars == <<cand, scored, verdict>>
apivars == <<request, response>>
extvars == <<asked, wsvars, valvars, apivars>>

\* The variables of the firehose, the agents and the engine singleton.
procvars == <<running, loops, agent_running, agent_loops, checks, pharma_brain,
              constructed, started, brain_running, got>>

vars == <<heap, facts, change_history, subscribers, hung, joined, pc, idx,
          result, inbox, recent, now, extvars, procvars>>

\* ------------------------------------------------------------- strings, dict
Colon == <<":">>

\* f"{entity_type}:{entity_id}:{field}"
FactKey(entity_type, entity_id, field) ==
    entity_type \o Colon \o entity_id \o Colon \o field

\* f"{entity_type}:{entity_id}:"
EntityPrefix(entity_type, entity_id) ==
    entity_type \o Colon \o entity_id \o Colon

\* str.startswith
StartsWith(s, prefix) ==
    /\ Len(prefix) <= Len(s)
    /\ SubSeq(s, 1, Len(prefix)) = prefix

\* key in d
DictHas(d, key) == \E i \in 1..Len(d) : d[i][1] = key

\* d[key] / d.get(key): the reference, as an Optional
DictGet(d, key) == { d[i][2] : i \in { j \in 1..Len(d) : d[j][1] = key } }

\* d[key] = ref: an existing key keeps its position, a new key goes last
DictSet(d, key, ref) ==
    IF DictHas(d, key)
    THEN [i \in 1..Len(d) |-> IF d[i][1] = key THEN <<key, ref>> ELSE d[i]]
    ELSE Append(d, <<key, ref>>)

\* ------------------------------------------------------------- AtomicFact
\* The dataclass constructor as the producer calls it: previous_value defaults
\* to None, created_at and updated_at to datetime.now().
NewFact(u, v, t) ==
    [entity_type    |-> u.entity_type,
     entity_id      |-> u.entity_id,
     field          |-> u.field,
     value          |-> v,
     previous_value |-> {},
     created_at     |-> t,
     updated_at     |-> t,
     importance     |-> u.importance]

KeyOf(f) == FactKey(f.entity_type, f.entity_id, f.field)

\* ------------------------------------------------------------- KnowledgeGraph
Calls == 1..Len(heap)

\* The upsert_fact calls suspended inside a subscriber callback.
InFlight == { c \in Calls : pc[c] = "notify" }

\* get_fact: an Optional reference
get_fact(entity_type, entity_id, field) ==
    DictGet(facts, FactKey(entity_type, entity_id, field))

\* get_entity_facts: the references whose key starts with the entity's prefix,
\* in dict order
get_entity_facts(entity_type, entity_id) ==
    LET hit == { i \in 1..Len(facts) :
                   StartsWith(facts[i][1], EntityPrefix(entity_type, entity_id)) }
        \* the i-th smallest element of hit
        Nth[n \in 1..Cardinality(hit)] ==
            CHOOSE i \in hit : Cardinality({ j \in hit : j < i }) = n - 1
    IN [n \in 1..Cardinality(hit) |-> facts[Nth[n]][2]]

\* A bug that drops the importance filter.
RecentOf_unfiltered(h, hist, t, hours, min_importance) ==
    LET cutoff == t - hours
        keep == { i \in 1..Len(hist) : h[hist[i]].updated_at > cutoff }
        Nth[n \in 1..Cardinality(keep)] ==
            CHOOSE i \in keep : Cardinality({ j \in keep : j < i }) = n - 1
    IN [n \in 1..Cardinality(keep) |-> hist[Nth[n]]]

\* The list comprehension of get_recent_changes over a history list.
RecentOf(h, hist, t, hours, min_importance) ==
    LET cutoff == t - hours
        keep == { i \in 1..Len(hist) :
                    /\ h[hist[i]].updated_at > cutoff
                    /\ h[hist[i]].importance >= min_importance }
        Nth[n \in 1..Cardinality(keep)] ==
            CHOOSE i \in keep : Cardinality({ j \in keep : j < i }) = n - 1
    IN [n \in 1..Cardinality(keep) |-> hist[Nth[n]]]

\* A bug that compares the fact objects (dataclass equality over every field)
\* instead of their values.
IsNoChange_objects(h, d, f) ==
    \E r \in DictGet(d, KeyOf(f)) : h[r] = f

\* Lines 86-89: the key is present and holds an equal value.
IsNoChange(h, d, f) ==
    \E r \in DictGet(d, KeyOf(f)) : h[r].value = f.value

\* A bug that stamps the fact's own value: fact.previous_value = fact.value
StampPrevious_own(f, existing) ==
    [f EXCEPT !.previous_value = {f.value}]

\* Line 92: fact.previous_value = existing.value
StampPrevious(f, existing) ==
    [f EXCEPT !.previous_value = {existing.value}]

\* Line 93: self.change_history.append(fact)
RecordChange(hist, ref) == Append(hist, ref)

\* Line 95: fact.updated_at = datetime.now()
StampUpdated(f, t) == [f EXCEPT !.updated_at = t]

\* A bug that updates the replaced object in place as well:
\* existing.previous_value = existing.value; existing.updated_at = now
HeapAfterAdmit_inplace(h, d, f, t) ==
    LET ex == DictGet(d, KeyOf(f))
        stamped == IF ex = {} THEN f
                   ELSE StampPrevious(f, h[CHOOSE r \in ex : TRUE])
        old == [r \in 1..Len(h) |->
                  IF r \in ex
                  THEN StampUpdated(StampPrevious(h[r], h[r]), t)
                  ELSE h[r]]
    IN Append(old, StampUpdated(stamped, t))

\* Lines 86-95 on the objects: the submitted fact is stamped; no other object
\* is written.
HeapAfterAdmit(h, d, f, t) ==
    LET ex == DictGet(d, KeyOf(f))
        stamped == IF ex = {} THEN f
                   ELSE StampPrevious(f, h[CHOOSE r \in ex : TRUE])
    IN Append(h, StampUpdated(stamped, t))

\* A bug that records the replaced fact: self.change_history.append(existing)
HistoryAfterAdmit_existing(hist, d, f, ref) ==
    IF DictHas(d, KeyOf(f))
    THEN RecordChange(hist, CHOOSE r \in DictGet(d, KeyOf(f)) : TRUE)
    ELSE hist

\* A bug that records every admitted fact, first observations included.
HistoryAfterAdmit_always(hist, d, f, ref) == RecordChange(hist, ref)

\* Lines 86-93 on the history: appended to only when the key was present.
HistoryAfterAdmit(hist, d, f, ref) ==
    IF DictHas(d, KeyOf(f)) THEN RecordChange(hist, ref) ELSE hist

\* A bug that refreshes the current fact's updated_at on a resubmission.
HeapAfterNoChange_touch(h, d, f, t) ==
    Append([i \in 1..Len(h) |->
                IF i \in DictGet(d, KeyOf(f)) THEN StampUpdated(h[i], t) ELSE h[i]],
           f)

\* Lines 88-89: the value is the current one, so upsert_fact returns False;
\* the object the producer built exists, nothing refers to it and no object
\* of the store is touched.
HeapAfterNoChange(h, d, f, t) == Append(h, f)

\* A bug that keeps the first fact of a key: self.facts.setdefault(fact_key, fact)
StoreFact_first(d, key, ref) ==
    IF DictHas(d, key) THEN d ELSE Append(d, <<key, ref>>)

\* Line 96: self.facts[fact_key] = fact
StoreFact(d, key, ref) == DictSet(d, key, ref)

\* The for loop of _notify_subscribers iterates the live list by position.
FirstCallback == 1

\* A bug that steps the loop by two.
NextCallback_skip(i) == i + 2

NextCallback(i) == i + 1

\* Line 96 precedes line 99: a read made from inside a callback sees the
\* store as upsert_fact has left it.
ReadAtCallback_stale == facts
ReadAtCallback == facts'

\* _notify_subscribers from position i on, for call c: the callback at i is
\* invoked and the call suspends in it, or the loop is over and upsert_fact
\* returns True (line 101).  pc0, idx0, res0 are the call tables holding c.
NotifySubscribers(pc0, idx0, res0, c, i) ==
    IF i <= Len(subscribers')
    THEN /\ inbox' = [inbox EXCEPT ![subscribers'[i]] =
                Append(@, [fact |-> c,
                           seen |-> DictGet(ReadAtCallback, KeyOf(heap'[c]))])]
         /\ pc' = [pc0 EXCEPT ![c] = "notify"]
         /\ idx' = [idx0 EXCEPT ![c] = i]
         /\ result' = res0
    ELSE /\ inbox' = inbox
         /\ pc' = [pc0 EXCEPT ![c] = "returned"]
         /\ idx' = [idx0 EXCEPT ![c] = 0]
         /\ result' = [res0 EXCEPT ![c] = {TRUE}]

\* ------------------------------------------------------------- actions
\* A bug that yields to the event loop between the store and the fan-out
\* (an await before line 99): the call suspends before any callback is invoked.
upsert_fact_deferred(u, v) ==
    /\ Cardinality(InFlight) < MaxInFlight
    /\ LET c == Len(heap) + 1
           f == NewFact(u, v, now)
       IN IF IsNoChange(heap, facts, f)
          THEN /\ heap' = HeapAfterNoChange(heap, facts, f, now)
               /\ pc' = Append(pc, "returned")
               /\ idx' = Append(idx, 0)
               /\ result' = Append(result, {FALSE})
               /\ UNCHANGED <<facts, change_history, subscribers, hung,
                              joined, inbox, recent, now, extvars>>
          ELSE /\ heap' = HeapAfterAdmit(heap, facts, f, now)
               /\ change_history' = HistoryAfterAdmit(change_history, facts, f, c)
               /\ facts' = StoreFact(facts, KeyOf(f), c)
               /\ pc' = Append(pc, "notify")
               /\ idx' = Append(idx, 0)
               /\ result' = Append(result, {})
               /\ UNCHANGED <<subscribers, hung, joined, inbox, recent, now,
                              extvars>>

\* A producer builds an AtomicFact (lines 242-253) and awaits upsert_fact
\* (lines 82-101), which runs up to its first suspension.
upsert_fact(u, v) ==
    /\ Cardinality(InFlight) < MaxInFlight
    /\ LET c == Len(heap) + 1
           f == NewFact(u, v, now)
       IN IF IsNoChange(heap, facts, f)
          THEN /\ heap' = HeapAfterNoChange(heap, facts, f, now)
               /\ pc' = Append(pc, "returned")
               /\ idx' = Append(idx, 0)
               /\ result' = Append(result, {FALSE})
               /\ UNCHANGED <<facts, change_history, subscribers, hung,
                              joined, inbox, recent, now, extvars>>
          ELSE /\ heap' = HeapAfterAdmit(heap, facts, f, now)
               /\ change_history' = HistoryAfterAdmit(change_history, facts, f, c)
               /\ facts' = StoreFact(facts, KeyOf(f), c)
               /\ UNCHANGED <<subscribers, hung, joined, recent, now, extvars>>
               /\ NotifySubscribers(Append(pc, "notify"), Append(idx, 0),
                                    Append(result, {}), c, FirstCallback)

\* The callback a call is suspended in finishes (line 130 or 132 returns)
\* and the loop goes on.
CallbackReturn(c) ==
    /\ c \in InFlight
    /\ idx[c] \notin { i \in 1..Len(subscribers) : subscribers[i] \in hung }
    /\ UNCHANGED <<heap, facts, change_history, subscribers, hung, joined,
                   recent, now, extvars>>
    /\ NotifySubscribers(pc, idx, result, c, NextCallback(idx[c]))

\* subscribe (line 121-123): a new callback goes last.  h: its sends never
\* complete (a peer that stopped reading).
subscribe(h) ==
    /\ Len(subscribers) < MaxSubs
    /\ LET s == Len(subscribers) + 1
       IN /\ subscribers' = Append(subscribers, s)
          /\ hung' = IF h THEN hung \cup {s} ELSE hung
          /\ joined' = Append(joined, Len(heap))
          /\ inbox' = Append(inbox, <<>>)
    /\ UNCHANGED <<heap, facts, change_history, pc, idx, result, recent, now,
                   extvars, procvars>>

\* get_recent_changes as its callers use it: (24, 1) in get_system_status,
\* (hours, 3) in get_recent_updates, and the default (24, 5).
QueryHours == {1, 24}
QueryMinImportance == {3, 5}

get_recent_changes(hours, min_importance) ==
    /\ recent' = RecentOf(heap, change_history, now, hours, min_importance)
    /\ asked' = {[hours |-> hours, min_importance |-> min_importance,
                  at |-> now, seen |-> Len(change_history)]}
    /\ UNCHANGED <<heap, facts, change_history, subscribers, hung, joined, pc, idx,
                   result, inbox, now, wsvars, valvars,
                   procvars, apivars>>

\* The clock advances.
Tick ==
    /\ now < MaxTime
    /\ now' = now + 1
    /\ UNCHANGED <<heap, facts, change_history, subscribers, hung, joined, pc, idx,
                   result, inbox, recent, extvars, procvars>>

\* ------------------------------------------------------------- websockets
\* A websocket and the push_to_ws closure made for it carry the same number:
\* its position in KnowledgeGraph.subscribers.

\* list.remove(x), guarded by "x in list" as both callers do
ListRemove(q, x) ==
    IF \E i \in 1..Len(q) : q[i] = x
    THEN LET k == CHOOSE i \in 1..Len(q) : q[i] = x /\ \A j \in 1..(i - 1) : q[j] # x
         IN [i \in 1..(Len(q) - 1) |-> IF i < k THEN q[i] ELSE q[i + 1]]
    ELSE q

\* A bug that wraps the whole for loop in the try: the first exception ends it.
AfterRaise_abort(i) == Len(subscribers) + 1

\* Lines 128-134: the try is inside the loop body, so after the except
\* clause the loop goes on with the next callback.
AfterRaise(i) == NextCallback(i)

\* The callback a call is suspended in raises an Exception; line 133 catches
\* it and prints, and the loop goes on.
CallbackRaises(c) ==
    /\ c \in InFlight
    /\ failed' = {[callback |-> subscribers[idx[c]], fact |-> c,
                   caught_in |-> "_notify_subscribers"]}
    /\ UNCHANGED <<heap, facts, change_history, subscribers, hung, joined,
                   recent, now, asked, active_connections, websocket_clients,
                   dead, valvars,
                   procvars, apivars>>
    /\ NotifySubscribers(pc, idx, result, c, AfterRaise(idx[c]))

\* ws.send_json raises inside push_to_ws (line 474); the bare except removes
\* ws from websocket_clients (lines 478-480) and push_to_ws returns normally,
\* so the loop goes on.
SendFails(c) ==
    /\ c \in InFlight
    /\ LET ws == subscribers[idx[c]]
       IN /\ websocket_clients' = ListRemove(websocket_clients, ws)
          /\ failed' = {[callback |-> ws, fact |-> c, caught_in |-> "push_to_ws"]}
    /\ UNCHANGED <<heap, facts, change_history, subscribers, hung, joined,
                   recent, now, asked, active_connections, dead, valvars,
                   procvars, apivars>>
    /\ NotifySubscribers(pc, idx, result, c, NextCallback(idx[c]))

\* ConnectionManager.connect after the accept (main.py lines 92-96) with
\* subscribe_websocket (lines 468-482) and subscribe (lines 121-123); the
\* brain already exists, so nothing suspends in between.
connect ==
    /\ Len(subscribers) < MaxSubs
    /\ LET ws == Len(subscribers) + 1
       IN /\ active_connections' = Append(active_connections, ws)
          /\ websocket_clients' = Append(websocket_clients, ws)
          /\ subscribers' = Append(subscribers, ws)
          /\ joined' = Append(joined, Len(heap))
          /\ inbox' = Append(inbox, <<>>)
    /\ UNCHANGED <<heap, facts, change_history, hung, pc, idx, result, recent,
                   now, asked, dead, failed, valvars,
                   procvars, apivars>>

\* The peer of an open websocket goes away.
PeerGone(ws) ==
    /\ ws \in 1..Len(subscribers)
    /\ ws \notin dead
    /\ dead' = dead \cup {ws}
    /\ UNCHANGED <<heap, facts, change_history, subscribers, hung, joined, pc,
                   idx, result, inbox, recent, now, asked, active_connections,
                   websocket_clients, failed, valvars,
                   procvars, apivars>>

\* receive_json raises WebSocketDisconnect in websocket_endpoint (main.py
\* lines 127, 150-151) and ConnectionManager.disconnect runs (lines 105-107).
disconnect(ws) ==
    /\ ws \in dead
    /\ \E i \in 1..Len(active_connections) : active_connections[i] = ws
    /\ active_connections' = ListRemove(active_connections, ws)
    /\ UNCHANGED <<heap, facts, change_history, subscribers, hung, joined, pc,
                   idx, result, inbox, recent, now, asked, websocket_clients,
                   dead, failed, valvars,
                   procvars, apivars>>

\* ------------------------------------------------------------- ChangeValidator
\* ChangeImportance (lines 22-31)
TRIVIAL == 1
LOW == 2
MINOR == 3
MODERATE == 4
NOTABLE == 5
SIGNIFICANT == 6
HIGH == 7
MAJOR == 8
CRITICAL == 9
URGENT == 10

\* p in s, for strings
Contains(s, p) ==
    \E i \in 0..(Len(s) - Len(p)) : SubSeq(s, i + 1, i + Len(p)) = p

\* str.lower(), token by token
LowerToken(t) ==
    CASE t = "Formulary" -> "formulary"
      [] t = "Tier" -> "tier"
      [] OTHER -> t

lower(s) == [i \in 1..Len(s) |-> LowerToken(s[i])]

\* (x or 0) for an Optional number: None and 0 both give 0
OrZero(x) == IF x = {} THEN 0 ELSE CHOOSE v \in x : TRUE

Abs(n) == IF n < 0 THEN -n ELSE n

\* A bug that puts the boundaries in the lower bucket.
CopayBucket_strict(diff) ==
    IF diff > 20 THEN SIGNIFICANT
    ELSE IF diff > 5 THEN MODERATE
    ELSE LOW

\* Lines 327-331
CopayBucket(diff) ==
    IF diff >= 20 THEN SIGNIFICANT
    ELSE IF diff >= 5 THEN MODERATE
    ELSE LOW

\* A bug that swaps the rows of the shortage and the warning fields.
score_importance_swapped(f) ==
    IF Contains(lower(f.field), <<"tier">>) /\ f.previous_value # {f.value}
    THEN MAJOR
    ELSE IF Contains(lower(f.field), <<"pa", "_", "required">>) THEN HIGH
    ELSE IF Contains(lower(f.field), <<"shortage">>) THEN CRITICAL
    ELSE IF Contains(lower(f.field), <<"warning">>) THEN URGENT
    ELSE IF Contains(lower(f.field), <<"copay">>)
    THEN CopayBucket(Abs(OrZero({f.value}) - OrZero(f.previous_value)))
    ELSE MODERATE

\* score_importance (lines 315-333): the tests in the order of the code
score_importance(f) ==
    IF Contains(lower(f.field), <<"tier">>) /\ f.previous_value # {f.value}
    THEN MAJOR
    ELSE IF Contains(lower(f.field), <<"pa", "_", "required">>) THEN HIGH
    ELSE IF Contains(lower(f.field), <<"shortage">>) THEN URGENT
    ELSE IF Contains(lower(f.field), <<"warning">>) THEN CRITICAL
    ELSE IF Contains(lower(f.field), <<"copay">>)
    THEN CopayBucket(Abs(OrZero({f.value}) - OrZero(f.previous_value)))
    ELSE MODERATE

\* Prices are in cents and confidences in hundred-thousandths, so that the
\* arithmetic of lines 286 and 290 is exact.
PriceSanity == 10000000      \* 100000 dollars (line 304)

\* isinstance(value, (int, float))
IsNumber(v) == v \in Int

\* _apply_rules (lines 294-307): (passed, confidence)
apply_rules(f) ==
    IF f.previous_value = {f.value}
    THEN <<FALSE, 0>>
    ELSE IF f.entity_type = <<"price">> /\ IsNumber(f.value)
         THEN IF f.value < 0 THEN <<FALSE, 0>>
              ELSE IF f.value > PriceSanity THEN <<TRUE, 70000>>
              ELSE <<TRUE, 90000>>
         ELSE <<TRUE, 90000>>

\* _llm_validate (lines 309-313)
llm_validate(f) == <<TRUE, 92000>>

\* A bug that escalates only above the threshold.
validate_above(f) ==
    LET rule_result == apply_rules(f)
        llm_result == llm_validate(f)
        combined_confidence == (rule_result[2] * 4 + llm_result[2] * 6) \div 10
    IN IF f.importance > 8
       THEN [is_valid |-> TRUE,
             confidence |-> (combined_confidence * 95) \div 100,
             reason |-> "Pending pharmacist verification"]
       ELSE [is_valid |-> TRUE,
             confidence |-> combined_confidence,
             reason |-> "Auto-validated"]

\* validate (lines 275-292): (is_valid, confidence, reason)
validate(f) ==
    LET rule_result == apply_rules(f)
        llm_result == llm_validate(f)
        combined_confidence == (rule_result[2] * 4 + llm_result[2] * 6) \div 10
    IN IF f.importance >= 8
       THEN [is_valid |-> TRUE,
             confidence |-> (combined_confidence * 95) \div 100,
             reason |-> "Pending pharmacist verification"]
       ELSE [is_valid |-> TRUE,
             confidence |-> combined_confidence,
             reason |-> "Auto-validated"]

\* The facts handed to the validator: the coordinates of the firehose
\* tuples (lines 208-227), one per field category, a capitalised tier field,
\* copays in whole dollars and prices around the sanity limits.
Candidates ==
    { [entity_type |-> <<"coverage">>,
       entity_id   |-> <<"ozempic", ":", "aetna_comm">>,
       field       |-> <<"formulary", "_", "tier">>,
       values      |-> {2, 3}],
      [entity_type |-> <<"coverage">>,
       entity_id   |-> <<"jardiance", ":", "united_comm">>,
       field       |-> <<"Formulary", "_", "Tier">>,
       values      |-> {1, 2}],
      [entity_type |-> <<"coverage">>,
       entity_id   |-> <<"ozempic", ":", "cigna_comm">>,
       field       |-> <<"pa", "_", "required">>,
       values      |-> {FALSE, TRUE}],
      [entity_type |-> <<"drug">>,
       entity_id   |-> <<"amoxicillin">>,
       field       |-> <<"shortage", "_", "status">>,
       values      |-> {"Limited Supply", "Resolved"}],
      [entity_type |-> <<"drug">>,
       entity_id   |-> <<"semaglutide">>,
       field       |-> <<"new", "_", "warning">>,
       values      |-> {"Thyroid monitoring recommended"}],
      [entity_type |-> <<"coverage">>,
       entity_id   |-> <<"metformin", ":", "humana_ma">>,
       field       |-> <<"copay">>,
       values      |-> 0..MaxCopay],
      [entity_type |-> <<"price">>,
       entity_id   |-> <<"eliquis">>,
       field       |-> <<"nadac">>,
       values      |-> {-1, 48550, PriceSanity, PriceSanity + 1}],
      [entity_type |-> <<"price">>,
       entity_id   |-> <<"ozempic">>,
       field       |-> <<"goodrx", "_", "low">>,
       values      |-> {84200}] }

\* The importance the candidate carries into validate.
Importances == TRIVIAL..URGENT

\* The candidate is scored (line 315).
ScoreImportance ==
    /\ \E f \in cand : scored' = {score_importance(f)}
    /\ UNCHANGED <<heap, facts, change_history, subscribers, hung, joined, pc, idx,
                   result, inbox, recent, now, asked, wsvars, cand, verdict,
                   procvars, apivars>>

\* The candidate is validated (line 275).
Validate ==
    /\ \E f \in cand : verdict' = {validate(f)}
    /\ UNCHANGED <<heap, facts, change_history, subscribers, hung, joined, pc, idx,
                   result, inbox, recent, now, asked, wsvars, cand, scored,
                   procvars, apivars>>

\* The variables of the knowledge graph.
kgvars == <<heap, facts, change_history, subscribers, hung, joined, pc, idx,
            result, inbox, recent, now>>

\* ------------------------------------------------------------- /api/interactions/check
\* Two entries of INTERACTIONS_DB (src/database.py): a Major and a Moderate one.
INTERACTIONS_DB ==
    << [drug_a |-> "warfarin", drug_b |-> "aspirin", severity |-> "Major"],
       [drug_a |-> "lisinopril", drug_b |-> "potassium", severity |-> "Moderate"] >>

\* The names a request may list, one of them capitalised.
DrugNames == {"Warfarin", "aspirin", "lisinopril", "potassium", "metformin"}

\* str.lower() of a drug name
LowerName(d) == IF d = "Warfarin" THEN "warfarin" ELSE d

\* The elements of a list that pass a test, in order.
RECURSIVE Filter(_, _)
Filter(q, keep) ==
    IF q = <<>> THEN <<>>
    ELSE IF Head(q) \in keep THEN <<Head(q)>> \o Filter(Tail(q), keep)
    ELSE Filter(Tail(q), keep)

\* check_interactions (src/database.py lines 722-734)
check_interactions(drug_names) ==
    LET drug_names_lower == { LowerName(drug_names[i]) : i \in 1..Len(drug_names) }
    IN Filter(INTERACTIONS_DB,
              { x \in { INTERACTIONS_DB[i] : i \in 1..Len(INTERACTIONS_DB) } :
                    /\ LowerName(x.drug_a) \in drug_names_lower
                    /\ LowerName(x.drug_b) \in drug_names_lower })

\* A bug that lets a single drug through.
TooFewDrugs_one(drugs) == Len(drugs) < 1

\* len(request.drugs) < 2 (src/main.py line 283)
TooFewDrugs(drugs) == Len(drugs) < 2

\* check_drug_interactions (src/main.py lines 280-292): HTTP 400 before any
\* lookup, or the lookup and a 200 answer.
check_drug_interactions ==
    /\ response' =
         IF TooFewDrugs(request)
         THEN {[status |-> 400, looked_up |-> FALSE, interactions |-> <<>>,
                has_major_interaction |-> FALSE]}
         ELSE LET interactions == check_interactions(request)
              IN {[status |-> 200, looked_up |-> TRUE,
                   interactions |-> interactions,
                   has_major_interaction |->
                       \E i \in 1..Len(interactions) :
                           interactions[i].severity = "Major"]}
    /\ UNCHANGED <<kgvars, asked, wsvars, valvars, procvars, request>>

\* ------------------------------------------------------------- PharmaFirehose
\* The agents' and the singleton's variables.
agentvars == <<agent_running, agent_loops, checks>>
brainvars == <<pharma_brain, constructed, started, brain_running, got>>

\* `while self.running` (line 230): into the sleep of line 232, or out.
LoopTop(r) == [at |-> IF r THEN "sleeping" ELSE "done", call |-> 0]

\* A bug that leaves out the second look at the flag.
WakeBreaks_never(r) == FALSE

\* `if not self.running: break` (lines 234-235)
WakeBreaks(r) == ~r

\* start (lines 193-196): the flag is set and a new task is created.
firehose_start ==
    /\ Len(loops) < MaxStarts
    /\ running' = TRUE
    /\ loops' = Append(loops, [at |-> "created", call |-> 0])
    /\ UNCHANGED <<kgvars, extvars, agentvars, brainvars>>

\* stop (lines 198-200): only the flag is cleared.
firehose_stop ==
    /\ running' = FALSE
    /\ UNCHANGED <<kgvars, extvars, loops, agentvars, brainvars>>

\* A created task runs for the first time and reaches line 230.
simulation_loop_begin(l) ==
    /\ l \in 1..Len(loops)
    /\ loops[l].at = "created"
    /\ loops' = [loops EXCEPT ![l] = LoopTop(running)]
    /\ UNCHANGED <<kgvars, extvars, running, agentvars, brainvars>>

\* The sleep of line 232 is over and the task leaves the loop (line 235).
simulation_loop_break(l) ==
    /\ l \in 1..Len(loops)
    /\ loops[l].at = "sleeping"
    /\ WakeBreaks(running)
    /\ loops' = [loops EXCEPT ![l] = [at |-> "done", call |-> 0]]
    /\ UNCHANGED <<kgvars, extvars, running, agentvars, brainvars>>

\* The sleep of line 232 is over and the task submits an update (lines
\* 238-256).  When upsert_fact returns without suspending, the task goes
\* round to line 230 and into the next sleep; otherwise it waits in the call.
simulation_loop_submit(l, u, v) ==
    /\ l \in 1..Len(loops)
    /\ loops[l].at = "sleeping"
    /\ ~WakeBreaks(running)
    /\ upsert_fact(u, v)
    /\ loops' = [loops EXCEPT ![l] =
                    IF pc'[Len(heap')] = "returned" THEN LoopTop(running)
                    ELSE [at |-> "upsert", call |-> Len(heap')]]
    /\ UNCHANGED <<running, agentvars, brainvars>>

\* The callback the task's call is suspended in returns; when it was the
\* last one, upsert_fact returns (line 256) and the task is back at line 230.
simulation_loop_resume(l) ==
    /\ l \in 1..Len(loops)
    /\ loops[l].at = "upsert"
    /\ CallbackReturn(loops[l].call)
    /\ loops' = [loops EXCEPT ![l] =
                    IF pc'[loops[l].call] = "returned" THEN LoopTop(running)
                    ELSE @]
    /\ UNCHANGED <<running, agentvars, brainvars>>

\* ------------------------------------------------------------- AutonomousAgent
\* `while self.running` of an agent's _run_loop (line 365): into the sleep
\* of line 366, or out.
AgentLoopTop(r) == IF r THEN "sleeping" ELSE "done"

\* AutonomousAgent.start (lines 349-351), for every agent of the list
\* (lines 454-455): the flag is set and a new task is created.
AgentsStarted(al) == [a \in DOMAIN al |-> Append(al[a], "created")]

\* A created agent task runs for the first time and reaches line 365.
run_loop_begin(a, t) ==
    /\ t \in 1..Len(agent_loops[a])
    /\ agent_loops[a][t] = "created"
    /\ agent_loops' = [agent_loops EXCEPT ![a][t] = AgentLoopTop(agent_running[a])]
    /\ UNCHANGED <<kgvars, extvars, running, loops, agent_running, checks, brainvars>>

\* The sleep of line 366 is over: the check is counted (line 367) and the
\* task is back at line 365.
run_loop_wake(a, t) ==
    /\ t \in 1..Len(agent_loops[a])
    /\ agent_loops[a][t] = "sleeping"
    /\ agent_running[a] => checks[a] < MaxChecks
    /\ checks' = [checks EXCEPT ![a] = @ + 1]
    /\ agent_loops' = [agent_loops EXCEPT ![a][t] = AgentLoopTop(agent_running[a])]
    /\ UNCHANGED <<kgvars, extvars, running, loops, agent_running, brainvars>>

\* ------------------------------------------------------------- PharmaBrain
\* A bug that constructs an engine on every call.
BrainMissing_always(b) == TRUE

\* `if pharma_brain is None` (line 510)
BrainMissing(b) == b = {}

\* PharmaBrain.__init__ (lines 420-443): a new instance, not running.
PharmaBrain_init(br) == Append(br, FALSE)

\* get_pharma_brain (lines 507-513).  No coroutine awaited on the way
\* (PharmaBrain.start, PharmaFirehose.start, AutonomousAgent.start) suspends,
\* so the call runs from line 510 to line 513 without yielding to the event
\* loop.  start (lines 445-458) sets the flag, starts the firehose (lines
\* 193-196) and every agent (lines 349-351).
get_pharma_brain(k) ==
    /\ got[k] = {}
    /\ IF BrainMissing(pharma_brain)
       THEN LET b == constructed + 1
            IN /\ constructed' = b
               /\ pharma_brain' = {b}
               /\ brain_running' = [PharmaBrain_init(brain_running) EXCEPT ![b] = TRUE]
               /\ started' = Append(started, b)
               /\ running' = TRUE
               /\ loops' = Append(loops, [at |-> "created", call |-> 0])
               /\ agent_running' = [a \in DOMAIN agent_running |-> TRUE]
               /\ agent_loops' = AgentsStarted(agent_loops)
       ELSE UNCHANGED <<constructed, pharma_brain, brain_running, started,
                        running, loops, agent_running, agent_loops>>
    /\ got' = [got EXCEPT ![k] = pharma_brain']
    /\ UNCHANGED <<kgvars, extvars, checks>>

\* PharmaBrain.stop (lines 460-466), called at shutdown (src/main.py line
\* 59): the three kinds of flag are cleared and nothing else is done.
PharmaBrain_stop ==
    /\ \E b \in pharma_brain :
         /\ brain_running[b]
         /\ brain_running' = [brain_running EXCEPT ![b] = FALSE]
    /\ running' = FALSE
    /\ agent_running' = [a \in DOMAIN agent_running |-> FALSE]
    /\ UNCHANGED <<kgvars, extvars, loops, agent_loops, checks, pharma_brain,
                   constructed, started, got>>

\* No firehose task, no agent task, no engine instance.
InitProc ==
    /\ running = FALSE
    /\ loops = <<>>
    /\ agent_running = [a \in 1..MaxAgents |-> FALSE]
    /\ agent_loops = [a \in 1..MaxAgents |-> <<>>]
    /\ checks = [a \in 1..MaxAgents |-> 0]
    /\ pharma_brain = {}
    /\ constructed = 0
    /\ started = <<>>
    /\ brain_running = <<>>
    /\ got = [k \in 1..MaxCallers |-> {}]

\* Nothing asked, no websocket, nothing handed to the validator.
InitExt ==
    /\ asked = {}
    /\ active_connections = <<>>
    /\ websocket_clients = <<>>
    /\ dead = {}
    /\ failed = {}
    /\ cand = {}
    /\ scored = {}
    /\ verdict = {}
    /\ request = <<>>
    /\ response = {}
    /\ InitProc

Init ==
    /\ heap = <<>>
    /\ facts = <<>>
    /\ change_history = <<>>
    /\ subscribers = <<>>
    /\ hung = {}
    /\ joined = <<>>
    /\ pc = <<>>
    /\ idx = <<>>
    /\ result = <<>>
    /\ inbox = <<>>
    /\ recent = <<>>
    /\ now = 0
    /\ InitExt

\* The fan-out: producers, websocket clients that attach at any time, and
\* their sends, on one event loop; the clock stands still.
Next ==
    \/ \E u \in Updates : \E v \in u.values :
            Len(heap) < MaxBusCalls /\ upsert_fact(u, v)
            /\ UNCHANGED procvars
    \/ \E c \in Calls : CallbackReturn(c) /\ UNCHANGED procvars
    \/ \E h \in BOOLEAN : subscribe(h)

Spec == Init /\ [][Next]_vars

\* The store under concurrent producers: the websocket clients, at least
\* one, are attached before the first fact arrives and all of them read.
InitStore ==
    /\ heap = <<>>
    /\ facts = <<>>
    /\ change_history = <<>>
    /\ \E n \in 1..MaxSubs :
         /\ subscribers = [s \in 1..n |-> s]
         /\ joined = [s \in 1..n |-> 0]
         /\ inbox = [s \in 1..n |-> <<>>]
    /\ hung = {}
    /\ pc = <<>>
    /\ idx = <<>>
    /\ result = <<>>
    /\ recent = <<>>
    /\ now = 0
    /\ InitExt

NextStore ==
    \/ \E u \in Updates : \E v \in u.values :
            Len(heap) < MaxCalls /\ upsert_fact(u, v)
            /\ UNCHANGED procvars
    \/ \E c \in Calls : CallbackReturn(c) /\ UNCHANGED procvars

SpecStore == InitStore /\ [][NextStore]_vars

\* The store over time: one websocket client is attached from the start,
\* the clock runs, and the HTTP handlers query the history.
InitHistory ==
    /\ heap = <<>>
    /\ facts = <<>>
    /\ change_history = <<>>
    /\ subscribers = <<1>>
    /\ joined = <<0>>
    /\ inbox = << <<>> >>
    /\ hung = {}
    /\ pc = <<>>
    /\ idx = <<>>
    /\ result = <<>>
    /\ recent = <<>>
    /\ now = 0
    /\ InitExt

NextHistory ==
    \/ \E u \in Updates : \E v \in u.values :
            Len(heap) < MaxCalls /\ upsert_fact(u, v)
            /\ UNCHANGED procvars
    \/ \E c \in Calls : CallbackReturn(c) /\ UNCHANGED procvars
    \/ \E hours \in QueryHours, m \in QueryMinImportance : get_recent_changes(hours, m)
    \/ Tick

SpecHistory == InitHistory /\ [][NextHistory]_vars

\* The fan-out with failing callbacks: the callbacks, at least one, are
\* registered before the first fact arrives; one producer (the firehose
\* loop) submits, and a callback may return, raise, or fail its send.
InitErrors ==
    /\ heap = <<>>
    /\ facts = <<>>
    /\ change_history = <<>>
    /\ \E n \in 1..MaxSubs :
         /\ subscribers = [s \in 1..n |-> s]
         /\ joined = [s \in 1..n |-> 0]
         /\ inbox = [s \in 1..n |-> <<>>]
         /\ active_connections = [s \in 1..n |-> s]
         /\ websocket_clients = [s \in 1..n |-> s]
    /\ hung = {}
    /\ pc = <<>>
    /\ idx = <<>>
    /\ result = <<>>
    /\ recent = <<>>
    /\ now = 0
    /\ asked = {}
    /\ dead = {}
    /\ failed = {}
    /\ cand = {}
    /\ scored = {}
    /\ verdict = {}
    /\ request = <<>>
    /\ response = {}
    /\ InitProc

NextErrors ==
    \/ \E u \in Updates : \E v \in u.values :
            Len(heap) < MaxBusCalls /\ InFlight = {} /\ upsert_fact(u, v)
            /\ UNCHANGED procvars
    \/ \E c \in Calls : CallbackReturn(c) /\ UNCHANGED procvars
    \/ \E c \in Calls : CallbackRaises(c)
    \/ \E c \in Calls : SendFails(c)

SpecErrors == InitErrors /\ [][NextErrors]_vars

\* The websocket endpoint: clients connect, their peers go away, the
\* endpoint notices, and the firehose loop keeps submitting.  A send to a
\* peer that is gone fails; a send to a live peer completes or fails.
NextWs ==
    \/ connect
    \/ \E ws \in 1..MaxSubs : PeerGone(ws)
    \/ \E ws \in 1..MaxSubs : disconnect(ws)
    \/ \E u \in Updates : \E v \in u.values :
            Len(heap) < MaxBusCalls /\ InFlight = {} /\ upsert_fact(u, v)
            /\ UNCHANGED procvars
    \/ \E c \in InFlight : subscribers[idx[c]] \notin dead /\ CallbackReturn(c)
            /\ UNCHANGED procvars
    \/ \E c \in Calls : SendFails(c)

SpecWs == Init /\ [][NextWs]_vars

\* The validator on its own: any candidate, with any previous value of its
\* coordinate (or none) and any importance, is scored and validated.
InitValidator ==
    /\ heap = <<>>
    /\ facts = <<>>
    /\ change_history = <<>>
    /\ subscribers = <<>>
    /\ hung = {}
    /\ joined = <<>>
    /\ pc = <<>>
    /\ idx = <<>>
    /\ result = <<>>
    /\ inbox = <<>>
    /\ recent = <<>>
    /\ now = 0
    /\ asked = {}
    /\ active_connections = <<>>
    /\ websocket_clients = <<>>
    /\ dead = {}
    /\ failed = {}
    /\ \E u \in Candidates : \E v \in u.values :
       \E p \in {{}} \cup { {x} : x \in u.values } : \E i \in Importances :
            cand = { [NewFact(u @@ [importance |-> i], v, 0)
                        EXCEPT !.previous_value = p] }
    /\ scored = {}
    /\ verdict = {}
    /\ request = <<>>
    /\ response = {}
    /\ InitProc

NextValidator ==
    \/ ScoreImportance
    \/ Validate

SpecValidator == InitValidator /\ [][NextValidator]_vars

\* What a producer may hand to upsert_fact: the firehose tuples of lines 208
\* and 216 with the importance the firehose attaches to them, and a second
\* field of the entity of line 208.
Submissions ==
    { [entity_type |-> <<"coverage">>,
       entity_id   |-> <<"ozempic", ":", "aetna_comm">>,
       field       |-> <<"formulary", "_", "tier">>,
       importance  |-> MAJOR,
       values      |-> {2, 3}],
      [entity_type |-> <<"coverage">>,
       entity_id   |-> <<"ozempic", ":", "aetna_comm">>,
       field       |-> <<"pa", "_", "required">>,
       importance  |-> HIGH,
       values      |-> {FALSE, TRUE}],
      [entity_type |-> <<"price">>,
       entity_id   |-> <<"ozempic">>,
       field       |-> <<"goodrx", "_", "low">>,
       importance  |-> NOTABLE,
       values      |-> {84200}] }

\* One producer and no subscriber: every call completes in one step.
NextProducer ==
    \E u \in Submissions : \E v \in u.values :
        Len(heap) < MaxCalls /\ upsert_fact(u, v)
            /\ UNCHANGED procvars

SpecProducer == Init /\ [][NextProducer]_vars

\* What the history is queried over: the tier of line 208, which moves
\* between 3 and 2, and the NADAC price of line 218, observed at two values,
\* each with the importance the firehose attaches to it.
HistoryUpdates ==
    { [entity_type |-> <<"coverage">>,
       entity_id   |-> <<"ozempic", ":", "aetna_comm">>,
       field       |-> <<"formulary", "_", "tier">>,
       importance  |-> MAJOR,
       values      |-> {2, 3}],
      [entity_type |-> <<"price">>,
       entity_id   |-> <<"eliquis">>,
       field       |-> <<"nadac">>,
       importance  |-> MODERATE,
       values      |-> {48550, 49025}] }

\* The history feed: both coordinates have been observed once (tier 3,
\* then the lower price), so every further submission of a new value is a
\* change.  One producer and no subscriber, the clock runs and the HTTP
\* handlers query the history.
InitRecent ==
    /\ heap = << NewFact(CHOOSE u \in HistoryUpdates : u.importance = MAJOR, 3, 0),
                 NewFact(CHOOSE u \in HistoryUpdates : u.importance = MODERATE,
                         48550, 0) >>
    /\ facts = << <<KeyOf(heap[1]), 1>>, <<KeyOf(heap[2]), 2>> >>
    /\ change_history = <<>>
    /\ subscribers = <<>>
    /\ hung = {}
    /\ joined = <<>>
    /\ pc = <<"returned", "returned">>
    /\ idx = <<0, 0>>
    /\ result = <<{TRUE}, {TRUE}>>
    /\ inbox = <<>>
    /\ recent = <<>>
    /\ now = 0
    /\ InitExt

NextRecent ==
    \/ \E u \in HistoryUpdates : \E v \in u.values :
            Len(heap) < MaxCalls + 2 /\ upsert_fact(u, v)
            /\ UNCHANGED procvars
    \/ \E hours \in QueryHours, m \in QueryMinImportance : get_recent_changes(hours, m)
    \/ Tick

SpecRecent == InitRecent /\ [][NextRecent]_vars

\* The firehose: start() is called on a stopped firehose, stop() at any
\* time; one websocket client is attached and reads.  Timers fire, created
\* tasks get to run and the client's sends complete.
NextFirehose ==
    \/ ~running /\ firehose_start
    \/ firehose_stop
    \/ \E l \in 1..MaxStarts : simulation_loop_begin(l)
    \/ \E l \in 1..MaxStarts : simulation_loop_break(l)
    \/ \E l \in 1..MaxStarts : \E u \in Updates : \E v \in u.values :
            Len(heap) < MaxBusCalls /\ simulation_loop_submit(l, u, v)
    \/ \E l \in 1..MaxStarts : simulation_loop_resume(l)

SpecFirehose ==
    /\ InitHistory
    /\ [][NextFirehose]_vars
    /\ \A l \in 1..MaxStarts :
         /\ WF_vars(simulation_loop_begin(l))
         /\ WF_vars(simulation_loop_break(l))
         /\ WF_vars(simulation_loop_resume(l))

\* The interaction check endpoint: a request listing up to MaxDrugs names,
\* possibly none, possibly one name twice, is served.
Requests == UNION { [1..n -> DrugNames] : n \in 0..MaxDrugs }

InitInteractions ==
    /\ heap = <<>>
    /\ facts = <<>>
    /\ change_history = <<>>
    /\ subscribers = <<>>
    /\ hung = {}
    /\ joined = <<>>
    /\ pc = <<>>
    /\ idx = <<>>
    /\ result = <<>>
    /\ inbox = <<>>
    /\ recent = <<>>
    /\ now = 0
    /\ asked = {}
    /\ active_connections = <<>>
    /\ websocket_clients = <<>>
    /\ dead = {}
    /\ failed = {}
    /\ cand = {}
    /\ scored = {}
    /\ verdict = {}
    /\ request \in Requests
    /\ response = {}
    /\ InitProc

NextInteractions == check_drug_interactions

SpecInteractions == InitInteractions /\ [][NextInteractions]_vars

\* get_system_status (lines 484-500): the count it reports.
get_system_status == [websocket_clients |-> Len(websocket_clients)]

\* Coordinates whose components contain ":": the tuple of line 208, whose
\* entity id is "ozempic:aetna_comm", and a coordinate of entity "ozempic"
\* whose field is "aetna_comm:formulary_tier"; and the price of line 216.
KeySubmissions ==
    { [entity_type |-> <<"coverage">>,
       entity_id   |-> <<"ozempic", ":", "aetna_comm">>,
       field       |-> <<"formulary", "_", "tier">>,
       importance  |-> MAJOR,
       values      |-> {2, 3}],
      [entity_type |-> <<"coverage">>,
       entity_id   |-> <<"ozempic">>,
       field       |-> <<"aetna_comm", ":", "formulary", "_", "tier">>,
       importance  |-> MAJOR,
       values      |-> {2, 3}],
      [entity_type |-> <<"price">>,
       entity_id   |-> <<"ozempic">>,
       field       |-> <<"goodrx", "_", "low">>,
       importance  |-> NOTABLE,
       values      |-> {84200}] }

\* One producer and no subscriber, over these coordinates.
NextKeys ==
    \E u \in KeySubmissions : \E v \in u.values :
        Len(heap) < MaxCalls /\ upsert_fact(u, v)
            /\ UNCHANGED procvars

SpecKeys == Init /\ [][NextKeys]_vars

\* The engine: handlers ask for the singleton, the shutdown stops it, and
\* the tasks it created run on the event loop.  A sleep ends and a created
\* task is scheduled, which is the fairness of the task steps.  The firehose
\* task's submissions are those of SpecFirehose; they touch no variable of
\* the engine or the agents and are left out here.
NextBrain ==
    \/ \E k \in 1..MaxCallers : get_pharma_brain(k)
    \/ PharmaBrain_stop
    \/ \E l \in 1..Len(loops) : simulation_loop_begin(l)
    \/ \E l \in 1..Len(loops) : simulation_loop_break(l)
    \/ \E a \in 1..MaxAgents : \E t \in 1..Len(agent_loops[a]) : run_loop_begin(a, t)
    \/ \E a \in 1..MaxAgents : \E t \in 1..Len(agent_loops[a]) : run_loop_wake(a, t)

SpecBrain ==
    /\ Init
    /\ [][NextBrain]_vars
    /\ \A a \in 1..MaxAgents : \A t \in 1..MaxStarts :
          WF_vars(run_loop_begin(a, t)) /\ WF_vars(run_loop_wake(a, t))
    /\ \A l \in 1..MaxStarts :
          WF_vars(simulation_loop_begin(l)) /\ WF_vars(simulation_loop_break(l))

\* ------------------------------------------------------------- properties
SameKey(a, b) == KeyOf(heap[a]) = KeyOf(heap[b])

\* upsert_fact did not answer False: the fact was stored (the call has returned
\* True or is still notifying).
Admitted(c) == result[c] # {FALSE}

Largest(S) == CHOOSE x \in S : \A y \in S : y <= x

\* The fact that was current for c's key when call c started, as an Optional.
CurrentBefore(c) ==
    LET prior == { p \in 1..(c - 1) : SameKey(p, c) /\ Admitted(p) }
    IN IF prior = {} THEN {} ELSE {Largest(prior)}

\* j is the first call after i that carries i's key.
NextOnKey(i, j) ==
    /\ i < j
    /\ SameKey(i, j)
    /\ \A m \in (i + 1)..(j - 1) : ~SameKey(i, m)

\* How often callback s was invoked with the fact of call c.
Count(s, c) == Cardinality({ p \in 1..Len(inbox[s]) : inbox[s][p].fact = c })

Range(q) == { q[i] : i \in 1..Len(q) }

\* C1: two consecutive upsert_fact calls on a key with the same value v, the
\* key's value before them being absent or different from v: the first is
\* admitted (returns True), the second returns False, and across the two calls
\* no callback is invoked twice and, once the first call has returned, every
\* callback subscribed before it has been invoked exactly once.
C1_Idempotent ==
    \A i, j \in Calls :
        (/\ NextOnKey(i, j)
         /\ heap[i].value = heap[j].value
         /\ \A r \in CurrentBefore(i) : heap[r].value # heap[i].value)
        => /\ Admitted(i)
           /\ result[j] = {FALSE}
           /\ \A s \in 1..Len(subscribers) :
                /\ Count(s, i) + Count(s, j) <= 1
                /\ (result[i] = {TRUE} /\ joined[s] < i)
                        => Count(s, i) + Count(s, j) = 1

C1_Witness ==
    \E i, j \in Calls :
        /\ NextOnKey(i, j)
        /\ heap[i].value = heap[j].value
        /\ CurrentBefore(i) # {}
        /\ result[i] = {TRUE}
        /\ result[j] = {FALSE}
        /\ \E s \in 1..Len(subscribers) : joined[s] < i /\ Count(s, i) = 1

\* C2: the previous_value of every admitted fact is the value of the fact that
\* was current for its key when it was admitted, and None when the key had no
\* fact, whatever calls on this and other keys are interleaved with it.
C2_PreviousValue ==
    \A c \in Calls :
        Admitted(c) =>
            heap[c].previous_value = { heap[r].value : r \in CurrentBefore(c) }

C2_Witness ==
    \E c \in Calls : \E r \in CurrentBefore(c) :
        /\ Admitted(c)
        /\ heap[c].previous_value = {heap[r].value}
        /\ pc[r] = "notify"
        /\ \E m \in (r + 1)..(c - 1) : ~SameKey(m, c) /\ heap[m].previous_value = {}

\* C3: when the calls made on a key carried pairwise distinct consecutive
\* values, get_fact returns the fact of the last of them; and when all calls
\* went to one key, get_entity_facts lists no field twice.
C3_KeyUniqueness ==
    /\ \A u \in Updates :
        LET cs == { c \in Calls :
                      KeyOf(heap[c]) = FactKey(u.entity_type, u.entity_id, u.field) }
        IN (/\ cs # {}
            /\ \A i, j \in cs : NextOnKey(i, j) => heap[i].value # heap[j].value)
           => /\ get_fact(u.entity_type, u.entity_id, u.field) = {Largest(cs)}
              /\ Admitted(Largest(cs))
    /\ (\A a, b \in Calls : SameKey(a, b))
        => \A u \in Updates :
            LET l == get_entity_facts(u.entity_type, u.entity_id)
            IN \A p, q \in 1..Len(l) :
                 heap[l[p]].field = heap[l[q]].field => p = q

C3_Witness ==
    /\ Len(heap) >= 3
    /\ \A a, b \in Calls : SameKey(a, b)
    /\ \A c \in Calls : Admitted(c)
    /\ \E u \in Updates :
         /\ get_fact(u.entity_type, u.entity_id, u.field) = {Len(heap)}
         /\ Len(get_entity_facts(u.entity_type, u.entity_id)) = 1

\* C4: every step (an upsert, a callback finishing, a get_recent_changes query,
\* a clock tick) leaves the old change_history as a prefix of the new one and
\* leaves every fact already in it exactly as it was.
C4_AppendOnly ==
    [][/\ Len(change_history') >= Len(change_history)
       /\ SubSeq(change_history', 1, Len(change_history)) = change_history
       /\ \A i \in 1..Len(change_history) :
            heap'[change_history[i]] = heap[change_history[i]]]_vars

C4_Witness ==
    /\ Len(change_history) >= 1
    /\ change_history[1] < Len(heap)
    /\ SameKey(change_history[1], Len(heap))
    /\ Admitted(Len(heap))
    /\ heap[change_history[1]].updated_at < heap[Len(heap)].updated_at
    /\ Len(recent) >= 1
    /\ Len(inbox[1]) >= 2

\* C5: whenever a callback is invoked with a fact, get_fact for the fact's key
\* returns that fact or one admitted later for the key.
C5_PublishAfterVisibility ==
    \A s \in 1..Len(inbox) : \A p \in 1..Len(inbox[s]) :
        LET e == inbox[s][p]
        IN /\ e.seen # {}
           /\ \A r \in e.seen : r >= e.fact /\ SameKey(r, e.fact) /\ Admitted(r)

C5_Witness ==
    /\ \E s \in 1..Len(inbox) : \E p \in 1..Len(inbox[s]) :
         /\ inbox[s][p].seen = {inbox[s][p].fact}
         /\ heap[inbox[s][p].fact].previous_value # {}
    /\ \E s \in 1..Len(inbox) : \E p \in 1..Len(inbox[s]) :
         inbox[s][p].seen # {inbox[s][p].fact}

\* C6: every callback is invoked with the facts admitted since it subscribed
\* in the order of their admission, so that all callbacks see any two facts in
\* the same order.
C6_GlobalOrder ==
    \A s \in 1..Len(inbox) : \A p, q \in 1..Len(inbox[s]) :
        (p < q /\ joined[s] < inbox[s][p].fact /\ joined[s] < inbox[s][q].fact)
            => inbox[s][p].fact < inbox[s][q].fact

\* C7: with a single subscriber, its callback is invoked with the facts of each
\* key in the order of their admission.
C7_PerKeyOrder ==
    Len(subscribers) = 1 =>
        \A p, q \in 1..Len(inbox[1]) :
            (p < q /\ SameKey(inbox[1][p].fact, inbox[1][q].fact))
                => inbox[1][p].fact < inbox[1][q].fact

C7_Witness ==
    /\ Len(subscribers) = 1
    /\ Cardinality(InFlight) >= 2
    /\ \E p, q, r \in 1..Len(inbox[1]) :
         /\ p < q
         /\ SameKey(inbox[1][p].fact, inbox[1][q].fact)
         /\ ~SameKey(inbox[1][p].fact, inbox[1][r].fact)
         /\ p < r

\* C8: a call is never held up by a callback that does not complete: if the
\* callback a call is suspended in never returns, the call has already
\* returned to its producer and every other callback subscribed before the
\* admission has been invoked with the fact.  (Such a call can take no further
\* step, so what has not happened by then never happens.)
C8_SlowSubscriberDoesNotBlock ==
    \A c \in Calls : \A i \in 1..Len(subscribers) :
        (pc[c] = "notify" /\ idx[c] = i /\ subscribers[i] \in hung)
        => /\ result[c] = {TRUE}
           /\ \A s \in 1..Len(subscribers) :
                (s # i /\ joined[s] < c) => Count(s, c) >= 1

\* C9: two upsert_fact calls in flight at once on one key are both applied, in
\* the order they started: the later one is recorded in change_history with
\* the value current when it started as its previous_value, that value being
\* the earlier call's or a later one's, and the current fact is the later
\* call's or a later one's, never the earlier call's.
C9_NoLostUpdate ==
    \A i, j \in InFlight :
        (i < j /\ SameKey(i, j))
        => /\ j \in Range(change_history)
           /\ \E r \in CurrentBefore(j) :
                /\ r >= i
                /\ heap[j].previous_value = {heap[r].value}
           /\ (CurrentBefore(j) = {i} => heap[i].value # heap[j].value)
           /\ \E r \in DictGet(facts, KeyOf(heap[j])) : r >= j

C9_Witness ==
    \E i, j \in InFlight :
        /\ i < j
        /\ SameKey(i, j)
        /\ CurrentBefore(j) = {i}
        /\ DictGet(facts, KeyOf(heap[j])) = {j}

\* C10: a fact for which upsert_fact has returned True has been passed to the
\* callback of every subscriber registered before its admission.
C10_AtLeastOnce ==
    \A c \in Calls :
        result[c] = {TRUE} =>
            \A s \in 1..Len(subscribers) : joined[s] < c => Count(s, c) >= 1

C10_Witness ==
    \E c \in Calls :
        /\ result[c] = {TRUE}
        /\ Cardinality({ s \in 1..Len(subscribers) : joined[s] < c /\ Count(s, c) = 1 }) >= 2

\* C11: an exception in a subscriber callback is confined.  In the step in
\* which a callback invoked for an admitted fact raises (out of the callback,
\* or inside push_to_ws), facts, change_history and the fact objects stay as
\* they are, upsert_fact does not report False, and either the next
\* subscriber is invoked with the same fact or, after the last one,
\* upsert_fact returns True.
C11_ErrorsConfined ==
    [][ \A x \in failed' :
          failed' # failed =>
            LET c == x.fact
                i == idx[c]
            IN /\ facts' = facts
               /\ change_history' = change_history
               /\ heap' = heap
               /\ result'[c] # {FALSE}
               /\ IF i < Len(subscribers)
                  THEN LET s == subscribers[i + 1]
                       IN /\ Len(inbox'[s]) = Len(inbox[s]) + 1
                          /\ inbox'[s][Len(inbox'[s])].fact = c
                  ELSE result'[c] = {TRUE} ]_vars

\* A callback raised out to the loop, a later subscriber still got the fact,
\* upsert_fact returned True and the fact is the stored one.
C11_Witness ==
    \E x \in failed :
        /\ x.caught_in = "_notify_subscribers"
        /\ result[x.fact] = {TRUE}
        /\ \E s \in 1..Len(subscribers) : s > x.callback /\ Count(s, x.fact) = 1
        /\ DictGet(facts, KeyOf(heap[x.fact])) = {x.fact}

\* C12: a websocket subscriber that has disconnected, either through
\* ConnectionManager.disconnect or through a failed send in push_to_ws, has
\* no callback left in KnowledgeGraph.subscribers.
C12_UnsubscribeReleases ==
    \A ws \in 1..Len(joined) :
        (ws \notin Range(active_connections) \/ ws \notin Range(websocket_clients))
            => ws \notin Range(subscribers)

\* C13: the importance of an admitted fact is the one the validator derives
\* from the transition: for every fact upsert_fact has admitted, the stored
\* importance equals score_importance of its (previous_value, value).
C13_ImportanceFromTransition ==
    \A c \in Calls :
        Admitted(c) => heap[c].importance = score_importance(heap[c])

\* The categories score_importance tests, and the test and the row of each.
Categories == {"tier", "pa_required", "shortage", "warning", "copay"}

Matches(cat, f) ==
    CASE cat = "tier" ->
            Contains(lower(f.field), <<"tier">>) /\ f.previous_value # {f.value}
      [] cat = "pa_required" -> Contains(lower(f.field), <<"pa", "_", "required">>)
      [] cat = "shortage" -> Contains(lower(f.field), <<"shortage">>)
      [] cat = "warning" -> Contains(lower(f.field), <<"warning">>)
      [] cat = "copay" -> Contains(lower(f.field), <<"copay">>)

Row(cat, f) ==
    CASE cat = "tier" -> 8
      [] cat = "pa_required" -> 7
      [] cat = "shortage" -> 10
      [] cat = "warning" -> 9
      [] cat = "copay" ->
            CopayBucket(Abs(OrZero({f.value}) - OrZero(f.previous_value)))

C15_CopayBuckets ==
    \A f \in cand : \A r \in scored :
        f.field = <<"copay">> =>
            LET p == IF f.previous_value = {} THEN 0
                     ELSE CHOOSE x \in f.previous_value : TRUE
                d == IF f.value >= p THEN f.value - p ELSE p - f.value
            IN /\ d >= 20 => r = 6
               /\ (5 <= d /\ d < 20) => r = 4
               /\ d < 5 => r = 2

\* A copay of 5 with no previous value has been scored 4, and a copay that
\* moved by exactly 20 can be told from it by its previous value.
C15_Witness ==
    \E f \in cand :
        /\ f.field = <<"copay">>
        /\ f.previous_value = {}
        /\ f.value = 5
        /\ scored = {4}

\* C16: validate reports a candidate as not valid when a hard rule fails:
\* its value equals the previous value, or it is a negative price.
C16_HardRejects ==
    \A f \in cand : \A r \in verdict :
        (\/ f.previous_value = {f.value}
         \/ (f.entity_type = <<"price">> /\ f.value < 0))
            => r.is_valid = FALSE

\* C17: validate returns 0.4 * rule confidence + 0.6 * scorer confidence,
\* times 0.95 exactly when the importance is at least 8; a candidate of
\* importance 8 or more is valid and pending pharmacist verification, one
\* below 8 is auto-validated with the undiscounted confidence.
C17_ConfidenceAndEscalation ==
    \A f \in cand : \A r \in verdict :
        LET base == (4 * apply_rules(f)[2] + 6 * llm_validate(f)[2]) \div 10
        IN /\ r.is_valid
           /\ f.importance >= 8 =>
                /\ 100 * r.confidence = 95 * base
                /\ r.reason = "Pending pharmacist verification"
           /\ f.importance < 8 =>
                /\ r.confidence = base
                /\ r.reason = "Auto-validated"

\* A change of importance exactly 8 that passes the rules has been validated:
\* 0.95 * (0.4 * 0.9 + 0.6 * 0.92) = 0.8664.
C17_Witness ==
    \E f \in cand : \E r \in verdict :
        /\ f.importance = 8
        /\ f.previous_value # {f.value}
        /\ r.confidence = 86640
        /\ r.reason = "Pending pharmacist verification"

\* C18: get_recent_changes(hours, min_importance) returns exactly the history
\* entries updated less than `hours` before the call whose importance is at
\* least min_importance, each once; and a change of importance 8 is in
\* get_recent_changes(24, 5) right after its admission.
C18_RecentChangesExact ==
    /\ \A q \in asked :
         /\ \A c \in Calls :
              c \in Range(recent) <=>
                /\ \E i \in 1..q.seen : change_history[i] = c
                /\ heap[c].updated_at > q.at - q.hours
                /\ heap[c].importance >= q.min_importance
         /\ Cardinality(Range(recent)) = Len(recent)
    /\ \A c \in Range(change_history) :
         (heap[c].importance = 8 /\ heap[c].updated_at = now)
            => c \in Range(RecentOf(heap, change_history, now, 24, 5))

\* A query with a window of one hour and a minimum importance of 5 returned
\* a change of importance 8 and left out both an older change and a recent
\* change of importance 4.
C18_Witness ==
    \E q \in asked :
        /\ q.hours = 1
        /\ q.min_importance = 5
        /\ \E c \in Range(recent) : heap[c].importance = 8 /\ heap[c].previous_value # {}
        /\ \E c \in Range(change_history) \ Range(recent) :
                heap[c].updated_at <= q.at - q.hours
        /\ \E c \in Range(change_history) \ Range(recent) :
                heap[c].updated_at > q.at - q.hours /\ heap[c].importance = 4

\* C19: get_recent_changes returns its result newest first: of two returned
\* facts, the one with the larger updated_at comes earlier in the list.
C19_NewestFirst ==
    \A p, q \in 1..Len(recent) :
        heap[recent[p]].updated_at > heap[recent[q]].updated_at => p < q

\* The order of Python strings, token by token.
TokenOrder == <<"_", "formulary", "goodrx", "low", "pa", "required", "tier">>

TokenRank(t) == CHOOSE i \in 1..Len(TokenOrder) : TokenOrder[i] = t

RECURSIVE StrLess(_, _)
StrLess(a, b) ==
    IF b = <<>> THEN FALSE
    ELSE IF a = <<>> THEN TRUE
    ELSE IF Head(a) = Head(b) THEN StrLess(Tail(a), Tail(b))
    ELSE TokenRank(Head(a)) < TokenRank(Head(b))

\* The entities facts are submitted for.
Entities == { <<u.entity_type, u.entity_id>> : u \in Submissions }

\* C20: get_entity_facts returns the facts of the entity in ascending order
\* of their field keys.
C20_FieldKeyAscending ==
    \A e \in Entities :
        LET r == get_entity_facts(e[1], e[2])
        IN \A p, q \in 1..Len(r) :
              p < q => StrLess(heap[r[p]].field, heap[r[q]].field)

\* C21: a resubmission has no effect.  A step in which upsert_fact is called
\* with the value the key currently holds returns False and leaves facts,
\* every fact object (previous_value and updated_at included), change_history,
\* the subscriber list and every subscriber's deliveries as they were; and
\* after every step each entry of change_history has a value different from
\* its previous_value.
C21_NoOpFrame ==
    [][ /\ (/\ Len(heap') = Len(heap) + 1
            /\ \E r \in DictGet(facts, KeyOf(heap'[Len(heap')])) :
                    heap[r].value = heap'[Len(heap')].value)
           => /\ result'[Len(heap')] = {FALSE}
              /\ facts' = facts
              /\ SubSeq(heap', 1, Len(heap)) = heap
              /\ change_history' = change_history
              /\ subscribers' = subscribers
              /\ inbox' = inbox
        /\ \A i \in 1..Len(change_history') :
              heap'[change_history'[i]].previous_value
                  # {heap'[change_history'[i]].value} ]_vars

\* A changed value was resubmitted after the clock had advanced: the call
\* returned False and the current fact kept its older updated_at.
C21_Witness ==
    \E j \in Calls : \E r \in DictGet(facts, KeyOf(heap[j])) :
        /\ result[j] = {FALSE}
        /\ r < j
        /\ heap[r].value = heap[j].value
        /\ heap[r].previous_value # {}
        /\ heap[r].updated_at < heap[j].created_at
        /\ r \in Range(change_history)

C27_SingleLoop ==
    Cardinality({ l \in 1..Len(loops) : loops[l].at \in {"sleeping", "upsert"} }) <= 1

\* C23: a request listing fewer than two drugs is answered 400 without a
\* lookup; a request listing two or more is answered 200, and its
\* has_major_interaction is true exactly when one of the interactions it
\* returns is of severity Major.
C23_InteractionCheck ==
    \A r \in response :
        /\ Len(request) < 2 => (r.status = 400 /\ ~r.looked_up)
        /\ Len(request) >= 2 =>
             /\ r.status = 200
             /\ r.has_major_interaction <=>
                    \E x \in Range(r.interactions) : x.severity = "Major"

\* A request for lisinopril, Warfarin and aspirin was answered 200 with the
\* Major warfarin-aspirin interaction.
C23_Witness ==
    /\ request = <<"lisinopril", "Warfarin", "aspirin">>
    /\ \E r \in response :
         /\ r.status = 200
         /\ r.has_major_interaction
         /\ Len(r.interactions) = 1

\* C24: the first admitted observation of a key becomes current and is
\* published but is not recorded.  change_history holds, in admission order,
\* exactly the admitted facts that replaced a fact of their key; its length
\* is the number of admitted calls minus the number of keys in facts; and
\* get_recent_changes returns no first observation.
C24_FirstObservationNotRecorded ==
    LET admitted == { c \in Calls : Admitted(c) }
        first == { c \in admitted : CurrentBefore(c) = {} }
    IN /\ Range(change_history) = admitted \ first
       /\ \A p, q \in 1..Len(change_history) :
            p < q => change_history[p] < change_history[q]
       /\ Len(change_history) = Cardinality(admitted) - Len(facts)
       /\ \A c \in first :
            /\ DictHas(facts, KeyOf(heap[c]))
            /\ heap[c].previous_value = {}
            /\ c \notin Range(recent)
            /\ \A s \in 1..Len(subscribers) :
                 (result[c] = {TRUE} /\ joined[s] < c) => Count(s, c) = 1

\* Two keys were observed for the first time and published, one of them then
\* changed, and a query returned the change alone.
C24_Witness ==
    /\ Len(facts) = 2
    /\ Len(change_history) = 1
    /\ recent = change_history
    /\ \A c \in Calls : result[c] = {TRUE}
    /\ \A c \in Calls \ Range(change_history) : Count(1, c) = 1

\* The facts of two calls carry the same (entity_type, entity_id, field).
SameTriple(a, b) ==
    /\ heap[a].entity_type = heap[b].entity_type
    /\ heap[a].entity_id = heap[b].entity_id
    /\ heap[a].field = heap[b].field

\* C25: distinct triples never share a slot.  get_fact for a triple returns a
\* fact of that triple; a call is rejected as no change only because of an
\* admitted fact of its own triple, and carries a previous_value only from a
\* fact of its own triple.
C25_DistinctKeys ==
    /\ \A u \in KeySubmissions :
         \A r \in get_fact(u.entity_type, u.entity_id, u.field) :
            /\ heap[r].entity_type = u.entity_type
            /\ heap[r].entity_id = u.entity_id
            /\ heap[r].field = u.field
    /\ \A c \in Calls :
         /\ result[c] = {FALSE} =>
                \E p \in 1..(c - 1) :
                    SameTriple(p, c) /\ Admitted(p) /\ heap[p].value = heap[c].value
         /\ heap[c].previous_value # {} =>
                \E p \in 1..(c - 1) :
                    SameTriple(p, c) /\ heap[c].previous_value = {heap[p].value}

\* The entities get_entity_facts is asked for: those facts are submitted
\* for, and the drug "ozempic" under the coverage type.
QueryEntities == Entities \cup { << <<"coverage">>, <<"ozempic">> >> }

\* C26: get_entity_facts(entity_type, entity_id) returns exactly the current
\* facts whose entity_type and entity_id are the arguments.
C26_EntityFactsExact ==
    \A e \in QueryEntities :
        Range(get_entity_facts(e[1], e[2]))
            = { r \in { facts[i][2] : i \in 1..Len(facts) } :
                    heap[r].entity_type = e[1] /\ heap[r].entity_id = e[2] }

\* C30: the websocket_clients count of get_system_status is the number of
\* connected websockets, and so is the number of callbacks the knowledge
\* graph holds.
C30_ConnectionBookkeeping ==
    /\ get_system_status.websocket_clients = Len(active_connections)
    /\ Len(subscribers) = Len(active_connections)

\* C28: an agent does no work after stop.  While its flag stays False its
\* stats["checks"] does not increase, and once the flag stays False every
\* _run_loop task of the agent terminates.
C28_NoWorkAfterStop ==
    /\ [][\A a \in 1..MaxAgents :
            (~agent_running[a] /\ ~agent_running'[a]) => checks'[a] = checks[a]]_vars
    /\ \A a \in 1..MaxAgents :
         (<>[](~agent_running[a])) =>
            <>[](\A t \in 1..Len(agent_loops[a]) : agent_loops[a][t] = "done")

\* C29: one engine.  Once a call of get_pharma_brain has returned, exactly
\* one PharmaBrain has been constructed and start has run exactly once, on
\* it; all callers hold that instance; and a caller receives it only after
\* start has set its running flag (the flag is False again only after the
\* shutdown stopped the instance).
C29_Singleton ==
    /\ [](/\ constructed <= 1
          /\ Len(started) = constructed
          /\ \A k \in 1..MaxCallers : got[k] # {} =>
                /\ constructed = 1
                /\ started = <<1>>
                /\ got[k] = pharma_brain
          /\ \A k, j \in 1..MaxCallers :
                (got[k] # {} /\ got[j] # {}) => got[k] = got[j])
    /\ [][\A k \in 1..MaxCallers : got'[k] # got[k] =>
            \A b \in got'[k] :
                /\ b \in Range(started')
                /\ \/ brain_running'[b]
                   \/ b \in Range(started) /\ ~brain_running[b]]_vars

\* Every caller holds the instance the first of them constructed, which
\* is running.
C29_Witness ==
    /\ \A k \in 1..MaxCallers : got[k] = {1}
    /\ constructed = 1
    /\ brain_running = <<TRUE>>

====
